---- MODULE Spec2Model ----
(***************************************************************************)
(* SWOT tool (src/src/App.tsx): the client state of the React component    *)
(* App (scenarios, selection, weights), its handlers, the derived          *)
(* statistics, the asynchronous aiScoreAll call with the closure it        *)
(* captures, and the two scale snappers nearestFib (client) and snapFib    *)
(* (service).                                                              *)
(*                                                                         *)
(* Numbers.  Scores are integers.  A raw value of the endpoint is a real;  *)
(* it is represented on the grid of halves: the integer h stands for the   *)
(* real h/2, so that the midpoint of two scale members is representable.   *)
(* A mean is the exact quotient sum/count, kept as the pair <<sum, count>>.*)
(***************************************************************************)
EXTENDS Integers, Sequences, FiniteSets, TLC

VARIABLES scenarios, selectedScenarioId, weights, nextUid, calls, last, stats,
          ranking, snapFn, snapIn, snapOut, svcReq, svcJudge, svcRes

vars == <<scenarios, selectedScenarioId, weights, nextUid, calls, last, stats,
          ranking, snapFn, snapIn, snapOut, svcReq, svcJudge, svcRes>>

appVars == <<scenarios, selectedScenarioId, weights, nextUid, calls, last, stats,
             ranking>>

snapVars == <<snapFn, snapIn, snapOut>>

svcVars == <<svcReq, svcJudge, svcRes>>

(***************************************************************************)
(* Bounds of the model.                                                    *)
(***************************************************************************)
\* uid() is called at most MaxUid times in a behaviour of Spec
\* (scenario and criterion ids together).
MaxUid == 3

\* aiScoreAll invocations that may be in flight at the same time.
MaxCalls == 1

\* uid() is called at most MaxAggUid times in a behaviour of AggSpec.
MaxAggUid == 4

\* Criteria in a request to the scoring service.
MaxSvcCriteria == 2

\* Raw values given to the snappers range over the reals h/2 with
\* -2 <= h/2 <= MaxRaw.
MaxRaw == 1600

(***************************************************************************)
(* Types and constants (App.tsx 4-27).                                     *)
(***************************************************************************)
AREAS == <<"S", "W", "O", "T">>

Areas == {AREAS[i] : i \in 1..Len(AREAS)}

FIB == <<1, 2, 3, 5, 8, 13, 21, 34, 55, 89, 144, 233, 377, 610, 987, 1597>>

ALL_FIB_WITH_ZERO == <<0>> \o FIB

\* score?: number -- the absent score (undefined); every number is >= 0
NoScore == -1

\* JSON values of a response entry: a number v (on the grid of halves), NaN,
\* a value of another type, or no entry under the id (undefined)
\* (t is the typeof the value, nan is Number.isNaN of it)
Num(v) == [t |-> "number", nan |-> FALSE, v |-> v]

NaN == [t |-> "number", nan |-> TRUE, v |-> 0]

NotANumber == [t |-> "string", nan |-> FALSE, v |-> 0]

Undefined == [t |-> "undefined", nan |-> FALSE, v |-> 0]

Abs(x) == IF x < 0 THEN -x ELSE x

\* the real h/2 of the integer score or scale member f
Half(f) == 2 * f

(***************************************************************************)
(* nearestFib (App.tsx 32-46).  n is on the grid of halves.                *)
(***************************************************************************)
RECURSIVE nearestFibLoop(_, _, _, _)
nearestFibLoop(n, i, best, minDiff) ==
    IF i > Len(FIB) THEN best
    ELSE LET f == FIB[i]
             d == Abs(n - Half(f))
         IN  IF d < minDiff
             THEN nearestFibLoop(n, i + 1, f, d)
             ELSE nearestFibLoop(n, i + 1, best, minDiff)

\* faulty variant: the comparison is not strict, so a later equally close member wins
RECURSIVE nearestFibLoopLe(_, _, _, _)
nearestFibLoopLe(n, i, best, minDiff) ==
    IF i > Len(FIB) THEN best
    ELSE LET f == FIB[i]
             d == Abs(n - Half(f))
         IN  IF d <= minDiff
             THEN nearestFibLoopLe(n, i + 1, f, d)
             ELSE nearestFibLoopLe(n, i + 1, best, minDiff)

nearestFibLe(n) ==
    IF n <= 0 THEN 0
    ELSE nearestFibLoopLe(n, 1, FIB[1], Abs(n - Half(FIB[1])))

\* faulty variant: minDiff is never updated after a closer member was found
RECURSIVE nearestFibLoopStale(_, _, _, _)
nearestFibLoopStale(n, i, best, minDiff) ==
    IF i > Len(FIB) THEN best
    ELSE LET f == FIB[i]
             d == Abs(n - Half(f))
         IN  IF d < minDiff
             THEN nearestFibLoopStale(n, i + 1, f, minDiff)
             ELSE nearestFibLoopStale(n, i + 1, best, minDiff)

nearestFibStale(n) ==
    IF n <= 0 THEN 0
    ELSE nearestFibLoopStale(n, 1, FIB[1], Abs(n - Half(FIB[1])))

\* faulty variant: the guard tests n < 0, so 0 itself goes through the loop
nearestFibLt(n) ==
    IF n < 0 THEN 0
    ELSE nearestFibLoop(n, 1, FIB[1], Abs(n - Half(FIB[1])))

\* faulty variant: a positive raw value is rounded, not snapped
nearestFibRounded(n) == IF n <= 0 THEN 0 ELSE (n + 1) \div 2

nearestFib(n) ==
    IF n <= 0 THEN 0
    ELSE nearestFibLoop(n, 1, FIB[1], Abs(n - Half(FIB[1])))

(***************************************************************************)
(* snapFib (App.tsx 667-668): FIB.reduce without an initial value, so the  *)
(* accumulator p starts as FIB[0] and c runs over the other members.       *)
(***************************************************************************)
RECURSIVE snapFibReduce(_, _, _)
snapFibReduce(n, i, p) ==
    IF i > Len(FIB) THEN p
    ELSE LET c == FIB[i]
         IN  snapFibReduce(n, i + 1,
                 IF Abs(Half(c) - n) < Abs(Half(p) - n) THEN c ELSE p)

snapFib(n) == snapFibReduce(n, 2, FIB[1])

(***************************************************************************)
(* Strings.  A text is a sequence of characters; the characters used are   *)
(* letters, the blank " " and the line break "\n".                         *)
(***************************************************************************)
IsSpace(ch) == ch \in {" ", "\n"}

\* String.prototype.trim
RECURSIVE trim(_)
trim(l) ==
    IF l = << >> THEN l
    ELSE IF IsSpace(Head(l)) THEN trim(Tail(l))
    ELSE IF IsSpace(l[Len(l)]) THEN trim(SubSeq(l, 1, Len(l) - 1))
    ELSE l

\* String.prototype.split("\n"): the pieces between the line breaks
RECURSIVE split(_, _)
split(text, cur) ==
    IF text = << >> THEN <<cur>>
    ELSE IF Head(text) = "\n" THEN <<cur>> \o split(Tail(text), << >>)
    ELSE split(Tail(text), Append(cur, Head(text)))

RECURSIVE filterNonEmpty(_)
filterNonEmpty(ls) ==
    IF ls = << >> THEN << >>
    ELSE IF Head(ls) = << >> THEN filterNonEmpty(Tail(ls))
    ELSE <<Head(ls)>> \o filterNonEmpty(Tail(ls))

\* text.split("\n").map((l) => l.trim()).filter(Boolean)   (App.tsx 130-133)
linesOf(text) ==
    LET ls == split(text, << >>)
    IN  filterNonEmpty([i \in 1..Len(ls) |-> trim(ls[i])])

\* String(f) of a non-negative integer, as its decimal digits (App.tsx 582)
RECURSIVE toString(_)
toString(n) == IF n < 10 THEN <<n>> ELSE Append(toString(n \div 10), n % 10)

\* parseInt(v, 10) of a string of decimal digits (App.tsx 577)
RECURSIVE parseInt(_, _)
parseInt(v, acc) == IF v = << >> THEN acc ELSE parseInt(Tail(v), 10 * acc + Head(v))

\* onChange of the score select: v ? parseInt(v, 10) : undefined (App.tsx 575-578)
scoreOfOption(v) == IF v # << >> THEN parseInt(v, 0) ELSE NoScore

(***************************************************************************)
(* Derived metrics (App.tsx 49-53, 80-97).                                 *)
(***************************************************************************)
RECURSIVE sumSeq(_)
sumSeq(values) == IF values = << >> THEN 0 ELSE Head(values) + sumSeq(Tail(values))

\* faulty variant: the empty list is not special-cased, the quotient is 0/0
meanNoGuard(values) == <<sumSeq(values), Len(values)>>

\* mean(values): 0 for the empty list, else sum / length
mean(values) ==
    IF Len(values) = 0 THEN <<0, 1>>
    ELSE <<sumSeq(values), Len(values)>>

RECURSIVE filterTruthy(_)
filterTruthy(vs) ==
    IF vs = << >> THEN << >>
    ELSE IF Head(vs) = NoScore \/ Head(vs) = 0 THEN filterTruthy(Tail(vs))
    ELSE <<Head(vs)>> \o filterTruthy(Tail(vs))

\* faulty variant: filter(Boolean) instead of the typeof test drops the explicit 0
scoredValuesTruthy(cs) == filterTruthy([k \in 1..Len(cs) |-> cs[k].score])

RECURSIVE filterNumber(_)
filterNumber(vs) ==
    IF vs = << >> THEN << >>
    ELSE IF Head(vs) = NoScore THEN filterNumber(Tail(vs))
    ELSE <<Head(vs)>> \o filterNumber(Tail(vs))

\* s.criteria[a].map((c) => c.score).filter((v) => typeof v === "number")
scoredValues(cs) == filterNumber([k \in 1..Len(cs) |-> cs[k].score])

\* exact arithmetic on quotients <<numerator, denominator>>
RatMul(r, k) == <<r[1] * k, r[2]>>

RatAdd(r, q) == <<r[1] * q[2] + q[1] * r[2], r[2] * q[2]>>

RatEq(r, q) == r[2] # 0 /\ q[2] # 0 /\ r[1] * q[2] = q[1] * r[2]

\* faulty variant: the weight of S is applied to W as well
totalOfSameWeight(means, w) ==
    RatAdd(RatAdd(RatAdd(RatMul(means.S, w.S), RatMul(means.W, w.S)),
                  RatMul(means.O, w.O)), RatMul(means.T, w.T))

\* means.S * weights.S + means.W * weights.W + means.O * weights.O + means.T * weights.T
totalOf(means, w) ==
    RatAdd(RatAdd(RatAdd(RatMul(means.S, w.S), RatMul(means.W, w.W)),
                  RatMul(means.O, w.O)), RatMul(means.T, w.T))

perScenarioStats(scens, w) ==
    [i \in 1..Len(scens) |->
        LET means == [a \in Areas |-> mean(scoredValues(scens[i].criteria[a]))]
        IN  [id |-> scens[i].id, means |-> means, total |-> totalOf(means, w)]]

(***************************************************************************)
(* The ranking (App.tsx 99-101): a copy of the statistics sorted with the  *)
(* comparator (a, b) => b.total - a.total.  Array.prototype.sort is        *)
(* stable: it places a before b when the comparator is negative and keeps  *)
(* the order of the array where it is zero.  The denominators of the       *)
(* totals are positive, so the sign of b.total - a.total is that of the    *)
(* cross products.                                                         *)
(***************************************************************************)
RatLess(r, q) == r[1] * q[2] < q[1] * r[2]

\* x is put in front of the first element it has to precede
RECURSIVE sortInsert(_, _)
sortInsert(s, x) ==
    IF s = << >> THEN <<x>>
    ELSE IF RatLess(Head(s).total, x.total) THEN <<x>> \o s
    ELSE <<Head(s)>> \o sortInsert(Tail(s), x)

RECURSIVE sortLoop(_, _, _)
sortLoop(arr, k, acc) ==
    IF k > Len(arr) THEN acc
    ELSE sortLoop(arr, k + 1, sortInsert(acc, arr[k]))

\* faulty variant: an element is put in front of the elements it ties with
RECURSIVE sortInsertTies(_, _)
sortInsertTies(s, x) ==
    IF s = << >> THEN <<x>>
    ELSE IF ~RatLess(x.total, Head(s).total) THEN <<x>> \o s
    ELSE <<Head(s)>> \o sortInsertTies(Tail(s), x)

RECURSIVE sortLoopTies(_, _, _)
sortLoopTies(arr, k, acc) ==
    IF k > Len(arr) THEN acc
    ELSE sortLoopTies(arr, k + 1, sortInsertTies(acc, arr[k]))

sortedForRankingTies(st) == sortLoopTies(st, 1, << >>)

\* [...perScenarioStats].sort((a, b) => b.total - a.total)
sortedForRanking(st) == sortLoop(st, 1, << >>)

(***************************************************************************)
(* State of App (App.tsx 61-77).  A scenario is modelled by its id and its *)
(* criteria; name, description and files are not read by any operation     *)
(* modelled here other than being copied.  uid() yields a fresh id: the    *)
(* ids are numbered in the order uid() hands them out.                     *)
(***************************************************************************)
emptyCriteria == [a \in Areas |-> << >>]

newScenario(id) == [id |-> id, criteria |-> emptyCriteria]

\* scenarios.find((s) => s.id === selectedScenarioId)!
find(scens, id) == scens[CHOOSE i \in 1..Len(scens) : scens[i].id = id]

selected == find(scenarios, selectedScenarioId)

idsOf(cs) == {cs[k].id : k \in 1..Len(cs)}

RECURSIVE filterSeq(_, _)
filterSeq(cs, drop) ==
    IF cs = << >> THEN << >>
    ELSE IF Head(cs).id = drop THEN filterSeq(Tail(cs), drop)
    ELSE <<Head(cs)>> \o filterSeq(Tail(cs), drop)

\* faulty variant: the scenario selected when the updater runs is changed,
\* not the one selected in the render whose closure runs
updateScenarioCurrent(prev, sid, criteria) ==
    [i \in 1..Len(prev) |->
        IF prev[i].id = selectedScenarioId
        THEN [prev[i] EXCEPT !.criteria = criteria] ELSE prev[i]]

\* prev.map((s) => (s.id === selectedScenarioId ? { ...s, ...partial } : s))
\* with partial = { criteria }; sid is the selectedScenarioId of the render
\* whose closure runs.
updateScenario(prev, sid, criteria) ==
    [i \in 1..Len(prev) |->
        IF prev[i].id = sid THEN [prev[i] EXCEPT !.criteria = criteria] ELSE prev[i]]

\* faulty variant: the new criteria hold the changed bucket only
setCriterionScoreNoSpread(prev, sid, selCriteria, area, id, score) ==
    updateScenario(prev, sid,
        [a \in {area} |->
            [k \in 1..Len(selCriteria[a]) |->
                IF selCriteria[a][k].id = id
                THEN [selCriteria[a][k] EXCEPT !.score = score]
                ELSE selCriteria[a][k]]])

\* setCriterionScore of the render that saw selectedScenarioId = sid and
\* selected.criteria = selCriteria, as the state updater it queues.
setCriterionScore(prev, sid, selCriteria, area, id, score) ==
    updateScenario(prev, sid,
        [selCriteria EXCEPT ![area] =
            [k \in 1..Len(@) |->
                IF @[k].id = id THEN [@[k] EXCEPT !.score = score] ELSE @[k]]])

NoOutcome == [kind |-> "none", status |-> 0, text |-> "", json |-> "none",
              data |-> [a \in Areas |-> [defined |-> FALSE, map |-> << >>]]]

NoLast == [kind |-> "none", out |-> NoOutcome,
           call |-> [sid |-> 0, criteria |-> emptyCriteria, requests |-> 0],
           before |-> << >>, alerts |-> << >>, requests |-> 0]

\* the buttons "S/O +, W/T -" (also the initial weights) and "Reset 1/1/1/1"
weightsSigned == [a \in Areas |-> IF a \in {"S", "O"} THEN 1 ELSE -1]

weightsOnes == [a \in Areas |-> 1]

AppInit ==
    /\ scenarios = <<newScenario(1)>>
    /\ selectedScenarioId = 1
    /\ weights = weightsSigned
    /\ nextUid = 2
    /\ calls = << >>
    /\ last = NoLast
    /\ stats = perScenarioStats(<<newScenario(1)>>, weightsSigned)
    /\ ranking = sortedForRanking(perScenarioStats(<<newScenario(1)>>, weightsSigned))

\* faulty variant: the state array itself is sorted by total, in place
renderSortingScenarios(scens, w) ==
    LET st == perScenarioStats(scens, w)
        sorted == sortedForRanking(st)
    IN  [scenarios |-> [k \in 1..Len(scens) |-> find(scens, sorted[k].id)],
         weights |-> w,
         perScenarioStats |-> st,
         sortedForRanking |-> sorted]

\* One render of App over the state (scens, w): the arrays it reads and the
\* arrays it builds, as they are when it returns.  The statistics are a new
\* array of new objects; sort, which works in place, is given a copy of it.
\* s.criteria[a].map throws on a scenario without the bucket a: the render
\* fails and shows nothing.
render(scens, w) ==
    IF \E i \in 1..Len(scens) : DOMAIN scens[i].criteria # Areas
    THEN [scenarios |-> scens,
          weights |-> w,
          perScenarioStats |-> << >>,
          sortedForRanking |-> << >>]
    ELSE LET st == perScenarioStats(scens, w)
         IN  [scenarios |-> scens,
              weights |-> w,
              perScenarioStats |-> st,
              sortedForRanking |-> sortedForRanking(st)]

\* every state change is followed by a render, which recomputes the memo
\* and the ranking
Render ==
    LET r == render(scenarios', weights')
    IN  /\ stats' = r.perScenarioStats
        /\ ranking' = r.sortedForRanking

(***************************************************************************)
(* Handlers (App.tsx 110-179, 511-530).                                    *)
(***************************************************************************)
addScenario ==
    /\ scenarios' = Append(scenarios, newScenario(nextUid))
    /\ selectedScenarioId' = nextUid
    /\ nextUid' = nextUid + 1
    /\ last' = NoLast
    /\ UNCHANGED <<weights, calls, snapVars, svcVars>>
    /\ Render

\* faulty variant: the filtered list is stored even when it is empty
removeScenarioNoGuard(id) ==
    LET next == filterSeq(scenarios, id)
    IN  /\ scenarios' = next
        /\ selectedScenarioId' =
               IF selectedScenarioId = id /\ Len(next) > 0 THEN next[1].id
               ELSE selectedScenarioId
        /\ last' = NoLast
        /\ UNCHANGED <<weights, nextUid, calls, snapVars, svcVars>>
        /\ Render

\* faulty variant: the selection is left on the removed scenario
removeScenarioKeepSelection(id) ==
    LET next == filterSeq(scenarios, id)
    IN  /\ IF Len(next) = 0
           THEN UNCHANGED <<scenarios, selectedScenarioId>>
           ELSE /\ scenarios' = next
                /\ selectedScenarioId' = selectedScenarioId
        /\ last' = NoLast
        /\ UNCHANGED <<weights, nextUid, calls, snapVars, svcVars>>
        /\ Render

removeScenario(id) ==
    LET next == filterSeq(scenarios, id)
    IN  /\ IF Len(next) = 0
           THEN UNCHANGED <<scenarios, selectedScenarioId>>
           ELSE /\ scenarios' = next
                /\ selectedScenarioId' =
                       IF selectedScenarioId = id THEN next[1].id
                       ELSE selectedScenarioId
        /\ last' = NoLast
        /\ UNCHANGED <<weights, nextUid, calls, snapVars, svcVars>>
        /\ Render

\* faulty variant: the new criteria are put in front of the existing ones
addCriteriaFromTextPrepend(area, text) ==
    LET lines == linesOf(text)
        fresh == [k \in 1..Len(lines) |->
                     [id |-> nextUid + k - 1, text |-> lines[k], score |-> NoScore]]
    IN  /\ IF Len(lines) = 0
           THEN UNCHANGED <<scenarios, nextUid>>
           ELSE /\ scenarios' = updateScenario(scenarios, selectedScenarioId,
                       [selected.criteria EXCEPT ![area] = fresh \o @])
                /\ nextUid' = nextUid + Len(lines)
        /\ last' = NoLast
        /\ UNCHANGED <<selectedScenarioId, weights, calls, snapVars, svcVars>>
        /\ Render

addCriteriaFromText(area, text) ==
    LET lines == linesOf(text)
        fresh == [k \in 1..Len(lines) |->
                     [id |-> nextUid + k - 1, text |-> lines[k], score |-> NoScore]]
    IN  /\ IF Len(lines) = 0
           THEN UNCHANGED <<scenarios, nextUid>>
           ELSE /\ scenarios' = updateScenario(scenarios, selectedScenarioId,
                       [selected.criteria EXCEPT ![area] = @ \o fresh])
                /\ nextUid' = nextUid + Len(lines)
        /\ last' = NoLast
        /\ UNCHANGED <<selectedScenarioId, weights, calls, snapVars, svcVars>>
        /\ Render

setCriterionText(area, id, text) ==
    /\ scenarios' = updateScenario(scenarios, selectedScenarioId,
           [selected.criteria EXCEPT ![area] =
               [k \in 1..Len(@) |->
                   IF @[k].id = id THEN [@[k] EXCEPT !.text = text] ELSE @[k]]])
    /\ last' = NoLast
    /\ UNCHANGED <<selectedScenarioId, weights, nextUid, calls, snapVars, svcVars>>
    /\ Render

deleteCriterion(area, id) ==
    /\ scenarios' = updateScenario(scenarios, selectedScenarioId,
           [selected.criteria EXCEPT ![area] = filterSeq(@, id)])
    /\ last' = NoLast
    /\ UNCHANGED <<selectedScenarioId, weights, nextUid, calls, snapVars, svcVars>>
    /\ Render

\* onScore of the score select of criterion id: the chosen option value v
onScore(area, id, v) ==
    /\ scenarios' = setCriterionScore(scenarios, selectedScenarioId,
                        selected.criteria, area, id, scoreOfOption(v))
    /\ last' = NoLast
    /\ UNCHANGED <<selectedScenarioId, weights, nextUid, calls, snapVars, svcVars>>
    /\ Render

onSelect(id) ==
    /\ selectedScenarioId' = id
    /\ last' = NoLast
    /\ UNCHANGED <<scenarios, weights, nextUid, calls, snapVars, svcVars>>
    /\ Render

\* onWeightsChange: the number field of one area, or one of the two buttons
\* Tabs onChange = setTab: the tab is not part of the model, so what is left
\* of the step is its render, over a state that no handler has changed
onTab ==
    LET r == render(scenarios, weights)
    IN  /\ scenarios' = r.scenarios
        /\ weights' = r.weights
        /\ stats' = r.perScenarioStats
        /\ ranking' = r.sortedForRanking
        /\ last' = NoLast
        /\ UNCHANGED <<selectedScenarioId, nextUid, calls, snapVars, svcVars>>

onWeightsChange(w) ==
    /\ weights' = w
    /\ last' = NoLast
    /\ UNCHANGED <<scenarios, selectedScenarioId, nextUid, calls, snapVars, svcVars>>
    /\ Render

(***************************************************************************)
(* aiScoreAll (App.tsx 181-236).  The part before the await runs in the    *)
(* click handler and captures selected and selectedScenarioId of that      *)
(* render; the part after the await runs when the request settles, with    *)
(* the captured values, whatever the user did in between.                  *)
(*                                                                         *)
(* An outcome of the request is                                            *)
(*   kind "throw": fetch (or reading the body) rejects,                    *)
(*   kind "http":  a response with a status and a body text; for a 2xx     *)
(*                 status json says what res.json() makes of the body:     *)
(*                 "invalid" (it throws), "null", "scalar" (a JSON value   *)
(*                 that is no object) or "object", whose members are data. *)
(***************************************************************************)
ok(out) == out.status >= 200 /\ out.status <= 299

rejectedAlert(out) == [kind |-> "rejected", status |-> out.status, detail |-> out.text]

errorAlert(cause) == [kind |-> "error", status |-> 0, detail |-> cause]

\* the for loops of lines 219-228, from area index ai and criterion index ci
RECURSIVE applyLoop(_, _, _, _, _)
applyLoop(prev, call, data, ai, ci) ==
    IF ai > Len(AREAS) THEN prev
    ELSE LET a == AREAS[ai]
             cs == call.criteria[a]
         IN  IF ci > Len(cs) THEN applyLoop(prev, call, data, ai + 1, 1)
             ELSE LET c == cs[ci]
                      mapForArea == IF data[a].defined THEN data[a].map ELSE << >>
                      raw == IF c.id \in DOMAIN mapForArea
                             THEN mapForArea[c.id] ELSE Undefined
                  IN  IF raw.t = "number" /\ ~raw.nan
                      THEN applyLoop(
                               setCriterionScore(prev, call.sid, call.criteria,
                                                 a, c.id, nearestFib(raw.v)),
                               call, data, ai, ci + 1)
                      ELSE applyLoop(prev, call, data, ai, ci + 1)

\* lines 215-228: the body of a 2xx response is parsed and applied
afterJson(prev, call, out) ==
    IF out.json = "invalid"
    THEN [scenarios |-> prev, alerts |-> <<errorAlert("json")>>,
          requests |-> 0]
    ELSE IF out.json = "null"
    THEN \* data[a] of null throws a TypeError before the first write
         [scenarios |-> prev, alerts |-> <<errorAlert("TypeError")>>,
          requests |-> 0]
    ELSE IF out.json = "scalar"
    THEN \* data[a] is undefined for every area: nothing to apply
         [scenarios |-> prev, alerts |-> << >>,
          requests |-> 0]
    ELSE [scenarios |-> applyLoop(prev, call, out.data, 1, 1), alerts |-> << >>,
          requests |-> 0]

\* faulty variant: the non-2xx branch alerts but does not return; res.json() then
\* fails on the body res.text() has consumed, and the catch alerts again
afterFetchNoReturn(prev, call, out) ==
    IF out.kind = "throw"
    THEN [scenarios |-> prev, alerts |-> <<errorAlert("fetch")>>,
          requests |-> 0]
    ELSE IF ~ok(out)
    THEN [scenarios |-> prev, alerts |-> <<rejectedAlert(out), errorAlert("json")>>,
          requests |-> 0]
    ELSE afterJson(prev, call, out)

\* faulty variant: the catch block swallows the error without alerting
afterFetchSilentCatch(prev, call, out) ==
    IF out.kind = "throw"
    THEN [scenarios |-> prev, alerts |-> << >>,
          requests |-> 0]
    ELSE IF ~ok(out)
    THEN [scenarios |-> prev, alerts |-> <<rejectedAlert(out)>>,
          requests |-> 0]
    ELSE [scenarios |-> afterJson(prev, call, out).scenarios, alerts |-> << >>,
          requests |-> 0]

\* faulty variant: a request that failed in transport is sent once more
afterFetchRetry(prev, call, out) ==
    IF out.kind = "throw"
    THEN [scenarios |-> prev, alerts |-> << >>, requests |-> 1]
    ELSE IF ~ok(out)
    THEN [scenarios |-> prev, alerts |-> <<rejectedAlert(out)>>, requests |-> 0]
    ELSE afterJson(prev, call, out)

\* lines 194-235 after the await: the scenarios the queued updaters yield
\* from prev, the alerts raised and the number of further requests sent
afterFetch(prev, call, out) ==
    IF out.kind = "throw"
    THEN [scenarios |-> prev, alerts |-> <<errorAlert("fetch")>>,
          requests |-> 0]
    ELSE IF ~ok(out)
    THEN [scenarios |-> prev, alerts |-> <<rejectedAlert(out)>>,
          requests |-> 0]
    ELSE afterJson(prev, call, out)

\* the click on "KI-Bewertung starten": the request is sent
aiScoreAll ==
    /\ calls' = Append(calls, [sid |-> selectedScenarioId,
                               criteria |-> selected.criteria,
                               requests |-> 1])
    /\ last' = NoLast
    /\ UNCHANGED <<scenarios, selectedScenarioId, weights, nextUid, snapVars, svcVars>>
    /\ Render

\* the request of the k-th call in flight settles with outcome out
aiSettle(k, out) ==
    LET call == calls[k]
        res == afterFetch(scenarios, call, out)
    IN  /\ scenarios' = res.scenarios
        /\ calls' = [j \in 1..(Len(calls) - 1) |->
                        IF j < k THEN calls[j] ELSE calls[j + 1]]
        /\ last' = [kind |-> "settled", out |-> out, call |-> call,
                    before |-> scenarios, alerts |-> res.alerts,
                    requests |-> call.requests + res.requests]
        /\ UNCHANGED <<selectedScenarioId, weights, nextUid, snapVars, svcVars>>
        /\ Render

(***************************************************************************)
(* The scoring service (App.tsx 655-744).  A request carries a method, a   *)
(* body and, when the body passes the schema, the criteria of the four     *)
(* areas.  The answer of the model to one criterion is a judgment: the     *)
(* call may fail (apiError), its content may not be JSON (badJson), may be *)
(* missing (noContent, read as '{}') or is an object whose score is a      *)
(* value of any type.                                                      *)
(***************************************************************************)
emptyOut == [a \in Areas |-> << >>]

NoReq == [method |-> "none", body |-> "none", criteria |-> emptyCriteria]

NoRes == [kind |-> "none", status |-> 0, out |-> emptyOut]

Judgment(kind, score) == [kind |-> kind, score |-> score]

\* faulty variant: the snapper of the client is used, which knows the score 0
scoreOneNearestFib(j) ==
    IF j.kind \in {"apiError", "badJson"} THEN [ok |-> FALSE, v |-> 0]
    ELSE LET score == IF j.kind = "noContent" THEN Undefined ELSE j.score
             raw == IF score.t = "number" THEN score.v ELSE 0
         IN  [ok |-> TRUE, v |-> nearestFib(raw)]

\* scoreOne: ok is FALSE when the promise rejects (the call or JSON.parse
\* throws), otherwise v is the value it resolves to
scoreOne(j) ==
    IF j.kind \in {"apiError", "badJson"} THEN [ok |-> FALSE, v |-> 0]
    ELSE LET score == IF j.kind = "noContent" THEN Undefined ELSE j.score
             raw == IF score.t = "number" THEN score.v ELSE 0
         IN  [ok |-> TRUE, v |-> snapFib(raw)]

\* for (const r of results) out[area][r.id] = r.v
RECURSIVE assignResults(_, _, _)
assignResults(results, k, m) ==
    IF k > Len(results) THEN m
    ELSE assignResults(results, k + 1,
             [id \in (DOMAIN m) \cup {results[k].id} |->
                 IF id = results[k].id THEN results[k].r.v ELSE m[id]])

\* the loop over the areas: Promise.all rejects as soon as one scoreOne
\* rejects, nothing catches it, and the handler ends with that exception
RECURSIVE handlerLoop(_, _, _, _)
handlerLoop(criteria, judge, ai, out) ==
    IF ai > Len(AREAS) THEN [kind |-> "response", status |-> 200, out |-> out]
    ELSE LET area == AREAS[ai]
             list == criteria[area]
             results == [k \in 1..Len(list) |->
                            [id |-> list[k].id, r |-> scoreOne(judge[list[k].id])]]
         IN  IF \E k \in 1..Len(list) : ~results[k].r.ok
             THEN [kind |-> "exception", status |-> 0, out |-> emptyOut]
             ELSE handlerLoop(criteria, judge, ai + 1,
                      [out EXCEPT ![area] = assignResults(results, 1, << >>)])

handler(req, judge) ==
    IF req.method # "POST"
    THEN [kind |-> "response", status |-> 405, out |-> emptyOut]
    ELSE IF req.body = "invalid"
    THEN [kind |-> "response", status |-> 400, out |-> emptyOut]
    ELSE IF req.body = "schema"
    THEN [kind |-> "response", status |-> 400, out |-> emptyOut]
    ELSE handlerLoop(req.criteria, judge, 1, emptyOut)

(***************************************************************************)
(* Inputs.                                                                 *)
(***************************************************************************)
\* texts typed into the "add" box: one line, only blanks, two lines
TextInputs == { <<"a">>, <<" ", "\n", " ">>, <<"a", "\n", " ", "a", " ">> }

\* areas whose "add" box is used
AddAreas == {"S", "W"}

EditInputs == { <<"x">> }

\* options of the score select: "" and String(f) for members f of the scale
ScoreOptions == { << >> } \cup { toString(ALL_FIB_WITH_ZERO[i]) : i \in {1} }

\* raw values of a response entry: -1, 7, NaN, a string, or no entry
RawInputs == { Num(-2), Num(14), NaN, NotANumber, Undefined }

StatusInputs == {404, 503}

BodyTextInputs == {"", "oops"}

\* the objects a response may carry for the criteria of the request:
\* entries gives the value under each id, in the map of the id's area;
\* an area without entries is left out of the object
dataOf(criteria, entries) ==
    [a \in Areas |->
        LET present == {id \in idsOf(criteria[a]) : entries[id].t # "undefined"}
        IN  [defined |-> present # {},
             map |-> [id \in present |-> entries[id]]]]

allIds(criteria) == UNION {idsOf(criteria[a]) : a \in Areas}

Outcomes(call) ==
    {[NoOutcome EXCEPT !.kind = "throw"]}
    \cup {[NoOutcome EXCEPT !.kind = "http", !.status = st, !.text = tx] :
             st \in StatusInputs, tx \in BodyTextInputs}
    \cup {[NoOutcome EXCEPT !.kind = "http", !.status = 200, !.json = j] :
             j \in {"invalid", "null", "scalar"}}
    \cup {[NoOutcome EXCEPT !.kind = "http", !.status = 200, !.json = "object",
                            !.data = dataOf(call.criteria, e)] :
             e \in [allIds(call.criteria) -> RawInputs]}

(***************************************************************************)
(* Spec: the editing session with the scoring call.                        *)
(***************************************************************************)
UidsLeft(max, n) == nextUid + n - 1 <= max

AddScenario == UidsLeft(MaxUid, 1) /\ addScenario

RemoveScenario == \E i \in 1..Len(scenarios) : removeScenario(scenarios[i].id)

AddCriteriaFromText ==
    \E a \in AddAreas, text \in TextInputs :
        /\ UidsLeft(MaxUid, Len(linesOf(text)))
        /\ addCriteriaFromText(a, text)

SetCriterionText ==
    \E a \in Areas, text \in EditInputs :
        \E id \in idsOf(selected.criteria[a]) : setCriterionText(a, id, text)

DeleteCriterion ==
    \E a \in Areas : \E id \in idsOf(selected.criteria[a]) : deleteCriterion(a, id)

OnScore ==
    \E a \in Areas, v \in ScoreOptions :
        \E id \in idsOf(selected.criteria[a]) : onScore(a, id, v)

OnSelect == \E i \in 1..Len(scenarios) : onSelect(scenarios[i].id)

AiScoreAll == Len(calls) < MaxCalls /\ aiScoreAll

AiSettle == \E k \in 1..Len(calls) : \E out \in Outcomes(calls[k]) : aiSettle(k, out)

SvcIdle == svcReq = NoReq /\ svcJudge = << >> /\ svcRes = NoRes

Init == AppInit /\ snapFn = "none" /\ snapIn = 0 /\ snapOut = 0 /\ SvcIdle

Next ==
    \/ AddScenario
    \/ RemoveScenario
    \/ AddCriteriaFromText
    \/ SetCriterionText
    \/ DeleteCriterion
    \/ OnScore
    \/ OnSelect
    \/ AiScoreAll
    \/ AiSettle

Spec == Init /\ [][Next]_vars

(***************************************************************************)
(* SnapSpec: the two snappers applied to every raw value of the grid.      *)
(***************************************************************************)
SnapInputs == (-4)..Half(MaxRaw)

SnapInit ==
    AppInit /\ snapFn = "none" /\ snapIn \in SnapInputs /\ snapOut = 0 /\ SvcIdle

ApplyNearestFib ==
    /\ snapFn = "none"
    /\ snapFn' = "nearestFib"
    /\ snapOut' = nearestFib(snapIn)
    /\ UNCHANGED <<appVars, snapIn, svcVars>>

ApplySnapFib ==
    /\ snapFn = "none"
    /\ snapFn' = "snapFib"
    /\ snapOut' = snapFib(snapIn)
    /\ UNCHANGED <<appVars, snapIn, svcVars>>

SnapNext == ApplyNearestFib \/ ApplySnapFib

SnapSpec == SnapInit /\ [][SnapNext]_vars

(***************************************************************************)
(* AggSpec: scenarios are built and scored by hand and the weights are     *)
(* changed; every step re-renders and so recomputes the statistics.        *)
(***************************************************************************)
AggScoreOptions == { << >> } \cup { toString(ALL_FIB_WITH_ZERO[i]) : i \in {1, 5} }

\* values typed into the number field of a weight, and the fields used
WeightInputs == {0}

WeightAreas == {"S", "W"}

AggAddScenario == UidsLeft(MaxAggUid, 1) /\ addScenario

AggAddCriterion ==
    \E a \in Areas : UidsLeft(MaxAggUid, 1) /\ addCriteriaFromText(a, <<"a">>)

AggOnScore ==
    \E a \in Areas, v \in AggScoreOptions :
        \E id \in idsOf(selected.criteria[a]) : onScore(a, id, v)

AggWeightField ==
    \E a \in WeightAreas, v \in WeightInputs : onWeightsChange([weights EXCEPT ![a] = v])

AggWeightButtons == \E w \in {weightsOnes, weightsSigned} : onWeightsChange(w)

AggOnTab == onTab

AggNext ==
    \/ AggAddScenario
    \/ AggAddCriterion
    \/ AggOnScore
    \/ AggWeightField
    \/ AggWeightButtons
    \/ AggOnTab

AggSpec == Init /\ [][AggNext]_vars

(***************************************************************************)
(* SvcSpec: the handler answers one request; the request and the judgment  *)
(* of the model on each of its criteria are drawn at the start.            *)
(***************************************************************************)
SvcAreas == {"S", "T"}

\* contents of a judgment object under "score": none, a string, 0, -1,
\* 3.5 (between two members) and 7
SvcScores == { Undefined, NotANumber, Num(0), Num(-2), Num(7), Num(14) }

SvcJudgments ==
    { Judgment(k, Undefined) : k \in {"apiError", "badJson", "noContent"} }
    \cup { Judgment("object", v) : v \in SvcScores }

\* the criteria 1..n, each in the area areaOf gives it, in the order of ids
RECURSIVE svcList(_, _, _, _)
svcList(n, areaOf, a, k) ==
    IF k > n THEN << >>
    ELSE (IF areaOf[k] = a THEN <<[id |-> k, text |-> <<"a">>]>> ELSE << >>)
         \o svcList(n, areaOf, a, k + 1)

SvcRequests ==
    { [method |-> "GET", body |-> "none", criteria |-> emptyCriteria],
      [method |-> "POST", body |-> "invalid", criteria |-> emptyCriteria],
      [method |-> "POST", body |-> "schema", criteria |-> emptyCriteria] }
    \cup UNION { { [method |-> "POST", body |-> "ok",
                    criteria |-> [a \in Areas |-> svcList(n, areaOf, a, 1)]] :
                      areaOf \in [1..n -> SvcAreas] } : n \in 0..MaxSvcCriteria }

SvcInit ==
    /\ AppInit /\ snapFn = "none" /\ snapIn = 0 /\ snapOut = 0
    /\ svcReq \in SvcRequests
    /\ svcJudge \in [allIds(svcReq.criteria) -> SvcJudgments]
    /\ svcRes = NoRes

Handle ==
    /\ svcRes = NoRes
    /\ svcRes' = handler(svcReq, svcJudge)
    /\ UNCHANGED <<appVars, snapVars, svcReq, svcJudge>>

SvcNext == Handle

SvcSpec == SvcInit /\ [][SvcNext]_vars

(***************************************************************************)
(* Properties.                                                             *)
(***************************************************************************)
Settled == last.kind = "settled"

\* the last step applied a 2xx response whose body is an object
SuccessApplied ==
    /\ Settled
    /\ last.out.kind = "http"
    /\ last.out.status >= 200 /\ last.out.status <= 299
    /\ last.out.json = "object"

\* the value the response holds for criterion id in the map of area a
entryOf(data, a, id) ==
    IF data[a].defined /\ id \in DOMAIN data[a].map THEN data[a].map[id] ELSE Undefined

IsFiniteNumber(raw) == raw.t = "number" /\ ~raw.nan

hasId(cs, id) == \E k \in 1..Len(cs) : cs[k].id = id

scoreOfId(cs, id) == cs[CHOOSE k \in 1..Len(cs) : cs[k].id = id].score

\* C1 (as claimed): after a success response has been applied, every
\* criterion of the originating scenario for which the response holds a
\* finite number under its id, in the map of its area, has the snapped value
\* as its score -- for any number of such criteria.
C1_EveryEntryApplied ==
    SuccessApplied =>
        \A i \in 1..Len(scenarios) :
            scenarios[i].id = last.call.sid =>
                \A a \in Areas :
                    \A k \in 1..Len(scenarios[i].criteria[a]) :
                        LET c == scenarios[i].criteria[a][k]
                            raw == entryOf(last.out.data, a, c.id)
                        IN  IsFiniteNumber(raw) => c.score = nearestFib(raw.v)

\* C2 (as claimed): after a success response has been applied, every
\* criterion that has no entry in the response for its area, or whose entry
\* is not a number or is NaN, still exists and has the score (or absence of
\* score) it had immediately before the application.
C2_OthersKeepScore ==
    SuccessApplied =>
        /\ Len(scenarios) = Len(last.before)
        /\ \A i \in 1..Len(last.before) :
               \A a \in Areas :
                   \A k \in 1..Len(last.before[i].criteria[a]) :
                       LET c == last.before[i].criteria[a][k]
                           raw == entryOf(last.out.data, a, c.id)
                       IN  ~IsFiniteNumber(raw) =>
                               /\ hasId(scenarios[i].criteria[a], c.id)
                               /\ scoreOfId(scenarios[i].criteria[a], c.id) = c.score

Rejected == Settled /\ last.out.kind = "http"
            /\ ~(last.out.status >= 200 /\ last.out.status <= 299)

\* C3: when the endpoint answers with a non-2xx status, no score is written
\* (the scenarios are what they were before the response) and exactly one
\* failure is raised, which carries the response status and the body text.
C3_RejectedNoWrite ==
    Rejected =>
        /\ scenarios = last.before
        /\ last.alerts = <<[kind |-> "rejected", status |-> last.out.status,
                            detail |-> last.out.text]>>

someScored(scens) ==
    \E i \in 1..Len(scens) : \E a \in Areas :
        \E k \in 1..Len(scens[i].criteria[a]) : scens[i].criteria[a][k].score # NoScore

\* the endpoint answered 503 with a body to a request for scored criteria
C3_Witness ==
    /\ Rejected
    /\ last.out.status = 503
    /\ last.out.text = "oops"
    /\ someScored(scenarios)
    /\ allIds(last.call.criteria) # {}

Threw == Settled /\ last.out.kind = "throw"

SuccessJson(kinds) ==
    /\ Settled
    /\ last.out.kind = "http"
    /\ last.out.status >= 200 /\ last.out.status <= 299
    /\ last.out.json \in kinds

\* C4 (as claimed): when fetch throws, or the body of a success response is
\* not the expected mapping (not JSON at all, or a JSON value that is no
\* such object), no score is written and exactly one failure of the
\* transport kind is raised.
C4_MalformedRaises ==
    (Threw \/ SuccessJson({"invalid", "null", "scalar"})) =>
        /\ scenarios = last.before
        /\ Len(last.alerts) = 1
        /\ last.alerts[1].kind = "error"

\* C4 (amended): when fetch throws, or the body of a success response is not
\* valid JSON or is the JSON value null, no score is written and exactly one
\* failure is raised, of a kind distinct from the non-2xx failure, which
\* names the cause; a body that is another JSON value that is no object
\* raises no failure and writes nothing.
C4_ThrowRaises ==
    /\ Threw =>
           /\ scenarios = last.before
           /\ last.alerts = <<[kind |-> "error", status |-> 0, detail |-> "fetch"]>>
    /\ SuccessJson({"invalid"}) =>
           /\ scenarios = last.before
           /\ last.alerts = <<[kind |-> "error", status |-> 0, detail |-> "json"]>>
    /\ SuccessJson({"null"}) =>
           /\ scenarios = last.before
           /\ last.alerts = <<[kind |-> "error", status |-> 0, detail |-> "TypeError"]>>
    /\ SuccessJson({"scalar"}) =>
           /\ scenarios = last.before
           /\ last.alerts = << >>

\* a success response whose body is not JSON arrived for scored criteria
C4_Witness ==
    /\ SuccessJson({"invalid"})
    /\ someScored(scenarios)
    /\ Len(last.alerts) = 1

\* C5 (as claimed): nearestFib returns the lowest member of the scale, 1,
\* for every raw value n <= 0.
C5_NonPositiveToLowest ==
    (snapFn = "nearestFib" /\ snapIn <= 0) => snapOut = FIB[1]

\* C5 (amended): nearestFib returns 0, not the lowest member of the scale,
\* for every raw value n <= 0.
C5_NonPositiveToZero ==
    (snapFn = "nearestFib" /\ snapIn <= 0) => snapOut = 0

\* nearestFib(0) = 0
C5_Witness == snapFn = "nearestFib" /\ snapIn = 0 /\ snapOut = 0

\* C6 (as claimed): for any two scale members a < b, adjacent or not,
\* nearestFib((a+b)/2) = a.
C6_AnyPairMidpoint ==
    snapFn = "nearestFib" =>
        \A i \in 1..Len(FIB) : \A j \in (i + 1)..Len(FIB) :
            snapIn = FIB[i] + FIB[j] => snapOut = FIB[i]

\* C6 (amended): for any two adjacent scale members a < b,
\* nearestFib((a+b)/2) = a: the tie goes to the lower member.
C6_AdjacentMidpoint ==
    snapFn = "nearestFib" =>
        \A i \in 1..(Len(FIB) - 1) :
            snapIn = FIB[i] + FIB[i + 1] => snapOut = FIB[i]

\* nearestFib(4) = 3, 4 being the midpoint of 3 and 5
C6_Witness == snapFn = "nearestFib" /\ snapIn = FIB[3] + FIB[4] /\ snapOut = FIB[3]

\* C7: for every member m of the scale, nearestFib(m) = m and snapFib(m) = m.
C7_MemberFixed ==
    snapFn \in {"nearestFib", "snapFib"} =>
        \A i \in 1..Len(FIB) : snapIn = Half(FIB[i]) => snapOut = FIB[i]

\* nearestFib(1597) = 1597
C7_Witness == snapFn = "nearestFib" /\ snapIn = Half(FIB[16]) /\ snapOut = FIB[16]

scoredIdx(cs) == {k \in 1..Len(cs) : cs[k].score # NoScore}

RECURSIVE scoreSum(_, _)
scoreSum(cs, idx) ==
    IF idx = {} THEN 0
    ELSE LET k == CHOOSE x \in idx : TRUE
         IN  cs[k].score + scoreSum(cs, idx \ {k})

\* C8: for every scenario and area with a scored criterion, the mean is
\* (sum of the present scores) / (number of criteria with a present score):
\* an explicit 0 counts in both, an absent score in neither.
C8_MeanOfScored ==
    /\ Len(stats) = Len(scenarios)
    /\ \A i \in 1..Len(scenarios) :
           /\ stats[i].id = scenarios[i].id
           /\ \A a \in Areas :
                  LET cs == scenarios[i].criteria[a]
                      idx == scoredIdx(cs)
                      m == stats[i].means[a]
                  IN  idx # {} =>
                          /\ m[2] # 0
                          /\ m[1] * Cardinality(idx) = scoreSum(cs, idx) * m[2]

\* an area holds the scores 5, absent, 0 in some order and has mean 5/2
C8_Witness ==
    \E i \in 1..Len(scenarios) : \E a \in Areas :
        LET cs == scenarios[i].criteria[a]
        IN  /\ Len(cs) = 3
            /\ {cs[k].score : k \in 1..3} = {5, NoScore, 0}
            /\ stats[i].means[a][1] * 2 = 5 * stats[i].means[a][2]

\* C9: an area without a scored criterion (empty, or all unscored) has
\* mean exactly 0.
C9_EmptyMeanZero ==
    \A i \in 1..Len(scenarios) : \A a \in Areas :
        scoredIdx(scenarios[i].criteria[a]) = {} =>
            /\ stats[i].means[a][2] # 0
            /\ stats[i].means[a][1] = 0

\* one area has only unscored criteria, another has a positive mean
C9_Witness ==
    \E i \in 1..Len(scenarios) : \E a, b \in Areas :
        /\ Len(scenarios[i].criteria[a]) > 0
        /\ scoredIdx(scenarios[i].criteria[a]) = {}
        /\ stats[i].means[a][1] = 0
        /\ stats[i].means[b][1] > 0

\* number of scored criteria of an area, 1 when there is none (mean 0/1)
den(s, a) == IF scoredIdx(s.criteria[a]) = {} THEN 1
             ELSE Cardinality(scoredIdx(s.criteria[a]))

num(s, a) == scoreSum(s.criteria[a], scoredIdx(s.criteria[a]))

\* C10: for every scenario, total = mean(S)*w(S) + mean(W)*w(W) +
\* mean(O)*w(O) + mean(T)*w(T), with the one weight vector of the state for
\* all scenarios; stated over the common denominator of the four means.
C10_TotalIsDotProduct ==
    \A i \in 1..Len(scenarios) :
        LET s == scenarios[i]
            D == den(s, "S") * den(s, "W") * den(s, "O") * den(s, "T")
            E == weights.S * num(s, "S") * den(s, "W") * den(s, "O") * den(s, "T")
               + weights.W * num(s, "W") * den(s, "S") * den(s, "O") * den(s, "T")
               + weights.O * num(s, "O") * den(s, "S") * den(s, "W") * den(s, "T")
               + weights.T * num(s, "T") * den(s, "S") * den(s, "W") * den(s, "O")
        IN  /\ stats[i].total[2] # 0
            /\ stats[i].total[1] * D = E * stats[i].total[2]

\* two scenarios, each with a scored weakness weighted -1, both totals negative
C10_Witness ==
    /\ Len(scenarios) = 2
    /\ weights.W = -1
    /\ \A i \in 1..2 :
           /\ scoredIdx(scenarios[i].criteria["W"]) # {}
           /\ stats[i].total[1] < 0

\* C11: the ranking is a permutation of the scenario statistics in which the
\* totals never increase from one place to the next, and two statistics
\* with equal totals stand in the order of the scenario list.
C11_RankingSortedStable ==
    /\ Len(ranking) = Len(stats)
    /\ \E p \in [1..Len(stats) -> 1..Len(stats)] :
          /\ \A k, l \in 1..Len(stats) : k # l => p[k] # p[l]
          /\ \A k \in 1..Len(stats) : ranking[k] = stats[p[k]]
          /\ \A k, l \in 1..Len(stats) :
                k < l =>
                    \/ RatLess(stats[p[l]].total, stats[p[k]].total)
                    \/ /\ RatEq(stats[p[l]].total, stats[p[k]].total)
                       /\ p[k] < p[l]

\* three scenarios, the first with the lowest total and the other two tied:
\* the ranking moves the first to the end and keeps the order of the tie
C11_Witness ==
    /\ Len(stats) = 3
    /\ RatLess(stats[1].total, stats[2].total)
    /\ RatEq(stats[2].total, stats[3].total)
    /\ ranking = <<stats[2], stats[3], stats[1]>>

\* C12: a render, which computes the statistics and the ranking, leaves the
\* scenario list (its order and every criterion included) and the weights
\* as they were.
C12_RenderLeavesState ==
    [][onTab => (scenarios' = scenarios /\ weights' = weights)]_vars

\* a state whose ranking is not in the order of the scenario list, with a
\* scored criterion: the sort has moved something
C12_Witness ==
    /\ Len(scenarios) >= 2
    /\ ranking[1].id # scenarios[1].id
    /\ someScored(scenarios)

endsIn(t) ==
    CASE t = "Applied" -> last.alerts = << >>
      [] t = "Rejected" -> /\ Len(last.alerts) = 1
                           /\ last.alerts[1].kind = "rejected"
                           /\ scenarios = last.before
      [] t = "Failed" -> /\ Len(last.alerts) = 1
                         /\ last.alerts[1].kind = "error"
                         /\ scenarios = last.before

\* C13: when the request of an aiScoreAll invocation has settled, the
\* invocation has sent exactly one request (as has every invocation still
\* in flight), it has ended in exactly one of Applied (no failure raised),
\* Rejected (the non-2xx failure, no write) and Failed (the other failure,
\* no write), and scores have changed only if it ended in Applied.
C13_OneRequestOneEnd ==
    Settled =>
        /\ last.requests = 1
        /\ \A k \in 1..Len(calls) : calls[k].requests = 1
        /\ Cardinality({t \in {"Applied", "Rejected", "Failed"} : endsIn(t)}) = 1
        /\ (endsIn("Applied") <=> ok(last.out) /\ last.out.json \in {"object", "scalar"})
        /\ (endsIn("Rejected") <=> last.out.kind = "http" /\ ~ok(last.out))
        /\ (scenarios # last.before => endsIn("Applied"))

\* an invocation that ended in Applied and wrote a score
C13_Witness ==
    /\ Settled
    /\ endsIn("Applied")
    /\ scenarios # last.before
    /\ last.requests = 1

\* C14: no step leaves the scenario list empty; a step taken with one
\* scenario keeps that scenario in the list; and a step that shortens the
\* list is a removal of exactly one scenario.  The list starts with one
\* scenario, so it is non-empty in every reachable state.
C14_ListNeverEmpty ==
    [][/\ Len(scenarios') >= 1
       /\ (Len(scenarios) = 1 =>
              \E i \in 1..Len(scenarios') : scenarios'[i].id = scenarios[1].id)
       /\ (Len(scenarios') < Len(scenarios) =>
              \E i \in 1..Len(scenarios) :
                  scenarios' = filterSeq(scenarios, scenarios[i].id))]_vars

\* a removal has happened (the initial scenario is gone) and the list is
\* down to one scenario, on which removeScenario can still be called
C14_Witness ==
    /\ Len(scenarios) = 1
    /\ scenarios[1].id # 1

svcAnswered == svcRes.kind # "none" /\ svcReq.method = "POST" /\ svcReq.body = "ok"

svcFailedIds == {id \in allIds(svcReq.criteria) : ~scoreOne(svcJudge[id]).ok}

\* C15 (as claimed): when scoreOne fails for a criterion of a valid request,
\* the handler still answers 200 and, in each area, its mapping has exactly
\* the criteria whose scoreOne succeeded -- the failed one is absent.
C15_FailedOneOmitted ==
    (svcAnswered /\ svcFailedIds # {}) =>
        /\ svcRes.kind = "response"
        /\ svcRes.status = 200
        /\ \A a \in Areas :
              DOMAIN svcRes.out[a] = idsOf(svcReq.criteria[a]) \ svcFailedIds

fibMembers == {FIB[i] : i \in 1..Len(FIB)}

svcNoNumber(j) == j.kind = "noContent" \/ j.score.t # "number"

\* C16: every value in the mapping the handler answers with is a member of
\* the scale 1..1597, and a criterion whose judgment has no score or a score
\* that is not a number has the lowest member, 1.
C16_MappingOnScale ==
    (svcRes.kind = "response" /\ svcRes.status = 200) =>
        \A a \in Areas : \A id \in DOMAIN svcRes.out[a] :
            /\ svcRes.out[a][id] \in fibMembers
            /\ (svcNoNumber(svcJudge[id]) => svcRes.out[a][id] = FIB[1])

\* an answer with a criterion judged without a number (mapped to 1) and one
\* judged 7 (mapped to 8)
C16_Witness ==
    /\ svcRes.kind = "response" /\ svcRes.status = 200
    /\ \E a, b \in Areas :
          \E id \in DOMAIN svcRes.out[a], jd \in DOMAIN svcRes.out[b] :
              /\ svcNoNumber(svcJudge[id]) /\ svcRes.out[a][id] = 1
              /\ svcJudge[jd].score = Num(14) /\ svcRes.out[b][jd] = 8

\* C17: in every reachable state the score of every criterion is absent or
\* is 0 or a member of the scale, whether it was chosen by hand or written
\* from a response.
C17_ScoresOnScale ==
    \A i \in 1..Len(scenarios) : \A a \in Areas :
        \A k \in 1..Len(scenarios[i].criteria[a]) :
            scenarios[i].criteria[a][k].score \in {NoScore, 0} \cup fibMembers

\* a response has been applied and the scenario holds a score chosen by
\* hand (0) next to one written from the response (7, snapped to 8)
C17_Witness ==
    /\ SuccessApplied
    /\ \E i \in 1..Len(scenarios) : \E a, b \in Areas :
          \E k \in 1..Len(scenarios[i].criteria[a]) :
              \E l \in 1..Len(scenarios[i].criteria[b]) :
                  /\ scenarios[i].criteria[a][k].score = 0
                  /\ scenarios[i].criteria[b][l].score = 8

isList(x) == DOMAIN x = 1..Len(x)

\* C18: in every reachable state every scenario has a criterion list,
\* possibly empty, under each of S, W, O and T, and under nothing else.
C18_FourBuckets ==
    \A i \in 1..Len(scenarios) :
        /\ DOMAIN scenarios[i].criteria = Areas
        /\ \A a \in Areas : isList(scenarios[i].criteria[a])

\* a scenario in which a response has written a score, next to a scenario
\* without criteria: both have the four buckets
C18_Witness ==
    /\ SuccessApplied
    /\ scenarios # last.before
    /\ Len(scenarios) = 2
    /\ \E i \in 1..2 : scenarios[i].criteria = emptyCriteria

posOf(cs, id) == CHOOSE k \in 1..Len(cs) : cs[k].id = id

\* C19: in every step, for every scenario that stays and each of its areas,
\* the criteria present before and after are in the same relative order,
\* and the criteria created by the step come after all the others, in the
\* order of their creation (the order of the lines).
C19_InsertionOrderKept ==
    [][\A i \in 1..Len(scenarios) : \A j \in 1..Len(scenarios') :
          scenarios[i].id = scenarios'[j].id =>
              \A a \in Areas :
                  LET old == scenarios[i].criteria[a]
                      new == scenarios'[j].criteria[a]
                  IN  \A k, l \in 1..Len(new) :
                          k < l =>
                              /\ (hasId(old, new[k].id) /\ hasId(old, new[l].id)
                                     => posOf(old, new[k].id) < posOf(old, new[l].id))
                              /\ (new[k].id >= nextUid => new[l].id > new[k].id)
      ]_vars

\* an area with two criteria added from one text, the second of which has
\* been edited and the first scored: they are still in the order of the lines
C19_Witness ==
    \E i \in 1..Len(scenarios) : \E a \in Areas :
        LET cs == scenarios[i].criteria[a]
        IN  /\ Len(cs) = 2
            /\ cs[1].id + 1 = cs[2].id
            /\ cs[1].score # NoScore
            /\ cs[2].text = <<"x">>

stripScores(scens) ==
    [i \in 1..Len(scens) |->
        [id |-> scens[i].id,
         criteria |-> [a \in Areas |->
             [k \in 1..Len(scens[i].criteria[a]) |->
                 [id |-> scens[i].criteria[a][k].id,
                  text |-> scens[i].criteria[a][k].text]]]]]

\* C20 (as claimed): applying a response changes score fields only; every
\* scenario has, after the application, exactly the criteria (ids, texts,
\* order) it had immediately before it, whatever the user added, deleted
\* or edited while the call was in flight.
C20_OnlyScoresChange ==
    SuccessApplied => stripScores(scenarios) = stripScores(last.before)

scenarioIds(scens) == {scens[i].id : i \in 1..Len(scens)}

\* the response holds a finite number for a criterion of the call
someFiniteEntry ==
    \E a \in Areas : \E id \in idsOf(last.call.criteria[a]) :
        IsFiniteNumber(entryOf(last.out.data, a, id))

\* C21: when a response has been handled, the scenario list has the same
\* scenarios in the same places as before, every scenario other than the
\* one selected when aiScoreAll was started is what it was before, and if
\* that scenario is no longer in the list nothing at all has changed --
\* whichever scenario is selected now.
C21_OnlyOriginatingScenario ==
    Settled =>
        /\ Len(scenarios) = Len(last.before)
        /\ \A i \in 1..Len(scenarios) :
              /\ scenarios[i].id = last.before[i].id
              /\ (scenarios[i].id # last.call.sid => scenarios[i] = last.before[i])
        /\ (last.call.sid \notin scenarioIds(last.before) => scenarios = last.before)

\* a response with a number has been applied while another scenario than
\* the originating one is selected, and the originating one was written to
C21_Witness ==
    /\ SuccessApplied
    /\ someFiniteEntry
    /\ selectedScenarioId # last.call.sid
    /\ \E i \in 1..Len(scenarios) :
          /\ scenarios[i].id = last.call.sid
          /\ scenarios[i] # last.before[i]

\* C22: after every step the selected id is the id of a scenario of the
\* list; a step that lengthens the list (addScenario) selects the scenario
\* it appended, and a step that removes the selected scenario selects the
\* first of those that remain.  Initially the only scenario is selected.
C22_SelectionExists ==
    [][/\ selectedScenarioId' \in scenarioIds(scenarios')
       /\ (Len(scenarios') > Len(scenarios) =>
              selectedScenarioId' = scenarios'[Len(scenarios')].id)
       /\ (selectedScenarioId \notin scenarioIds(scenarios') =>
              selectedScenarioId' = scenarios'[1].id)]_vars

\* the id handed out last is gone from the list (the scenario added last
\* was removed while it was selected), two scenarios remain and the first
\* of them is selected
C22_Witness ==
    /\ Len(scenarios) = 2
    /\ nextUid - 1 \notin scenarioIds(scenarios)
    /\ \A i \in 1..2 : scenarios[i].criteria = emptyCriteria
    /\ selectedScenarioId = scenarios[1].id

====
